---- MODULE Spec2Model ----
(***************************************************************************)
(* Sentiment-analysis backend: the persisted AgentRun record, the          *)
(* trigger / poll / cancel HTTP handlers and the Celery job                *)
(* run_agent_analysis with its retry policy.                               *)
(*                                                                         *)
(* Time is kept in seconds; the clock advances in steps of TickSeconds.    *)
(* Run ids (uuid4 in the code) are the naturals 1, 2, ... in creation      *)
(* order.  A nullable integer/timestamp column holds Null when it is NULL, *)
(* a nullable text column holds None, a nullable JSON text column holds    *)
(* the empty tuple when NULL and the 1-tuple <<data>> for json.dumps(data).*)
(* cancel_run is one atomic step; trigger_analysis is two (the lookup, then *)
(* create-and-dispatch), so that two requests can interleave.              *)
(*                                                                         *)
(* Spec is the lifecycle of the runs.  SpecThrottle puts the trigger's     *)
(* rate limit in front of requests handled one at a time, on a clock of    *)
(* its own.  SpecFn applies one function (the request validation, the      *)
(* result extraction, the poll of a given record) to one input drawn by    *)
(* its initial state.  SpecTools is one worker process's data tools: the   *)
(* web surfer filling the dataset cache and the dataset reader reading it. *)
(* SpecLive is the lifecycle under the assumption that the queue delivers   *)
(* every message and every execution ends.                                 *)
(***************************************************************************)
EXTENDS Integers, Sequences, FiniteSets, TLC

\* ------------------------------------------------------------------ bounds
MaxRuns == 2
MaxTicks == 2
\* the throttle check: clock steps, and trigger requests let through in all
MaxThrottleTicks == 2
MaxServed == 11
\* the function checks: the ticker texts are one character or none, then
\* up to MaxPad letters, then up to MaxTail characters
MaxPad == 10
MaxTail == 2
\* web-surfer runs in one worker process
MaxSurfs == 3

\* ------------------------------------------------- constants of the program
Null == 0 - 1
None == "None"
max_retries == 2
RecentWindowSeconds == 120
\* the clock's step: the length of the anti-duplicate window
TickSeconds == RecentWindowSeconds
HTTP_200_OK == 200
HTTP_202_ACCEPTED == 202
HTTP_400_BAD_REQUEST == 400
HTTP_404_NOT_FOUND == 404
HTTP_500_INTERNAL_SERVER_ERROR == 500

\* views.py:32, rate = '10/min': ten requests per sixty seconds
throttle_num_requests == 10
throttle_duration == 60
\* the throttle check's clock step: half the throttle's window
ThrottleTickSeconds == throttle_duration \div 2

STATUS_CHOICES == {"PENDING", "RUNNING", "COMPLETED", "FAILED"}

\* request bodies that pass AnalyzeRequestSerializer: two for one ticker
\* with different parameters, one for another ticker
Requests ==
    { [ticker |-> "AAPL", timeframe |-> "30d", include_social |-> TRUE],
      [ticker |-> "AAPL", timeframe |-> "1y", include_social |-> FALSE],
      [ticker |-> "TSLA", timeframe |-> "30d", include_social |-> TRUE] }

\* the HTTP workers that serve trigger requests concurrently
Handlers == {"h1", "h2"}

\* the tickers the data tools and the pipeline are built for
Tickers == {"AAPL", "TSLA", "MSFT"}

\* the client addresses requests come from
Clients == {"10.0.0.1", "10.0.0.2"}

VARIABLES runs, job, trig, now, input, output, history, served, cache

vars == <<runs, job, trig, now, input, output, history, served, cache>>
\* what the lifecycle actions leave alone: the function under application
\* and the throttle's cache
aux == <<input, output, history, served, cache>>

\* ------------------------------------------------------------ the record
\* AgentRun.objects.create(ticker, timeframe, include_social, status='PENDING')
\* with the column defaults of the model.
AgentRun(ticker, timeframe, include_social, t) ==
    [ ticker |-> ticker,
      timeframe |-> timeframe,
      include_social |-> include_social,
      status |-> "PENDING",
      agent_outputs |-> << >>,
      consensus_data |-> << >>,
      created_at |-> t,
      started_at |-> Null,
      completed_at |-> Null,
      execution_time |-> Null,
      error_message |-> None,
      retry_count |-> 0,
      news_sources_count |-> Null,
      price_data_points |-> Null ]

\* Model.save(update_fields=fields): only the named columns of the row are
\* written, from the in-memory object obj.
save(row, obj, fields) ==
    [f \in DOMAIN row |-> IF f \in fields THEN obj[f] ELSE row[f]]

\* the in-memory object after AgentRun.mark_as_running (before its save)
mark_as_running(obj, t) ==
    [obj EXCEPT !.status = "RUNNING", !.started_at = t]

\* the in-memory object after AgentRun.mark_as_completed (before its save);
\* "if execution_time:" skips the assignment for None and for 0.
mark_as_completed(obj, execution_time, t) ==
    [obj EXCEPT !.status = "COMPLETED",
                !.completed_at = t,
                !.execution_time = IF execution_time # Null /\ execution_time # 0
                                   THEN execution_time ELSE @]

\* variant of mark_as_failed that leaves completed_at alone
mark_as_failed_NoCompletedAt(obj, error_msg, t) ==
    [obj EXCEPT !.status = "FAILED", !.error_message = error_msg]

\* variant that records the failure but leaves the status as it was
mark_as_failed_KeepsStatus(obj, error_msg, t) ==
    [obj EXCEPT !.error_message = error_msg, !.completed_at = t]

\* the in-memory object after AgentRun.mark_as_failed (before its save)
mark_as_failed(obj, error_msg, t) ==
    [obj EXCEPT !.status = "FAILED",
                !.error_message = error_msg,
                !.completed_at = t]

MarkRunningFields == {"status", "started_at"}
MarkCompletedFields == {"status", "completed_at", "execution_time"}
MarkFailedFields == {"status", "error_message", "completed_at"}

set_agent_outputs(obj, data) == [obj EXCEPT !.agent_outputs = <<data>>]
set_consensus_data(obj, data) == [obj EXCEPT !.consensus_data = <<data>>]

\* ------------------------------------------------- the pipeline's outputs
\* What crew.kickoff() hands back is outside the program: the final stage's
\* text either is a JSON object (json |-> TRUE, obj its members) or is not.
\* Scores are in hundredths.
ChiefOutputs ==
    { [json |-> FALSE, obj |-> [raw |-> "not json"]],
      [json |-> TRUE,  obj |-> [consensus_score |-> 40, action |-> "buy",
                                confidence |-> 80, allocation |-> 20]],
      [json |-> TRUE,  obj |-> [score |-> 0 - 30, action |-> "SELL"]] }

\* dict.get(key, default)
get(d, key, default) == IF key \in DOMAIN d THEN d[key] ELSE default

\* str.upper() on the action, ticker and status texts that occur
upper(s) ==
    CASE s = "buy" -> "BUY"
      [] s = "sell" -> "SELL"
      [] s = "hold" -> "HOLD"
      [] s = "strong buy" -> "STRONG BUY"
      [] s = "aapl" -> "AAPL"
      [] s = "failed" -> "FAILED"
      [] OTHER -> s

\* extract_consensus: the dict built from the final stage's output; the
\* except branch returns the six-key parse-error dict.
extract_consensus(chief) ==
    IF chief.json
    THEN [ score |-> get(chief.obj, "consensus_score", get(chief.obj, "score", 0)),
           action |-> upper(get(chief.obj, "action", "HOLD")),
           confidence |-> get(chief.obj, "confidence", 50),
           allocation |-> get(chief.obj, "allocation", 10),
           risk_level |-> upper(get(chief.obj, "risk_level", "MODERATE")),
           reasoning |-> get(chief.obj, "reasoning", ""),
           time_horizon |-> get(chief.obj, "time_horizon", "N/A"),
           key_risks |-> get(chief.obj, "key_risks", << >>),
           analyst_weights_used |-> get(chief.obj, "analyst_weights_used", << >>) ]
    ELSE [ score |-> 0,
           action |-> "HOLD",
           confidence |-> 0,
           allocation |-> 0,
           risk_level |-> "HIGH",
           reasoning |-> "Parse error" ]

\* An analyst or attack stage's output: text tells whether output.raw is a
\* text at all, json whether that text is a JSON object, obj its members.
\* The numbers that occur are JSON integers (float() and int() keep them);
\* scores are in hundredths.  nonnum names the members whose value float()
\* and int() reject (a word, null, a list), which obj leaves out;
\* unsliceable names those whose value has no slice (a number, null, an
\* object), which obj holds as the text of the value.
NotText == [text |-> FALSE, json |-> FALSE, obj |-> << >>]
Malformed == [text |-> TRUE, json |-> FALSE, obj |-> << >>]
\* a text that is JSON but a list: parsed.get raises AttributeError
NotObject == [text |-> TRUE, json |-> FALSE, obj |-> << >>, array |-> TRUE]

NonNumeric(task_output, key) == key \in get(task_output, "nonnum", {})
Has(task_output, key) == key \in DOMAIN task_output.obj \/ NonNumeric(task_output, key)
Unsliceable(task_output, key) == key \in get(task_output, "unsliceable", {})

AnalystOutputs ==
    { NotText, Malformed, NotObject,
      [text |-> TRUE, json |-> TRUE, obj |-> [initial_score |-> 50, confidence |-> 80]],
      [text |-> TRUE, json |-> TRUE, obj |-> [score |-> 0 - 10]],
      [text |-> TRUE, json |-> TRUE, obj |-> [confidence |-> 80],
       nonnum |-> {"score"}],
      [text |-> TRUE, json |-> TRUE, obj |-> [initial_score |-> 50],
       nonnum |-> {"confidence"}] }

AttackOutputs ==
    { Malformed,
      [text |-> TRUE, json |-> TRUE, obj |-> [revised_score |-> 30]],
      [text |-> TRUE, json |-> TRUE, obj |-> [attacks |-> "a"]],
      [text |-> TRUE, json |-> TRUE, obj |-> [attacks |-> "a"],
       nonnum |-> {"revised_score"}] }

\* parse_agent_output: the entry, or raised when the except branch itself
\* raises (raw.strip() and then raw[:300] on a raw that is no text)
parse_agent_output(task_output, name, role) ==
    IF ~ task_output.text
    THEN [raised |-> TRUE]
    ELSE IF /\ task_output.json
            /\ ~ NonNumeric(task_output,
                            IF Has(task_output, "initial_score")
                            THEN "initial_score" ELSE "score")
            /\ ~ NonNumeric(task_output, "confidence")
    THEN [ raised |-> FALSE,
           value |-> [ name |-> name, role |-> role,
                       score |-> get(task_output.obj, "initial_score",
                                     get(task_output.obj, "score", 0)),
                       confidence |-> get(task_output.obj, "confidence", 50) ] ]
    ELSE [ raised |-> FALSE,
           value |-> [name |-> name, role |-> role, score |-> 0, confidence |-> 50] ]

\* parse_attack_output: revised_score is the empty tuple for None
parse_attack_output(task_output) ==
    IF /\ task_output.text /\ task_output.json
       /\ ~ NonNumeric(task_output, "revised_score")
       /\ ~ NonNumeric(task_output, "confidence_adjustment")
    THEN [ revised_score |-> <<get(task_output.obj, "revised_score", 0)>>,
           confidence_adjustment |-> get(task_output.obj, "confidence_adjustment", 0) ]
    ELSE [ revised_score |-> << >>, confidence_adjustment |-> 0 ]

\* generate_mock_outputs: the three entries, with the random draws given
generate_mock_outputs(draws) ==
    << [name |-> "Long-Term Value Investor", role |-> "value_investor",
        score |-> draws[1].score, confidence |-> draws[1].confidence],
       [name |-> "Momentum Swing Trader", role |-> "momentum_trader",
        score |-> draws[2].score, confidence |-> draws[2].confidence],
       [name |-> "Contrarian Risk Strategist", role |-> "contrarian",
        score |-> draws[3].score, confidence |-> draws[3].confidence] >>

\* the ends of the ranges random.uniform / random.randint draw from
MockDraws ==
    { << [score |-> 20, confidence |-> 60], [score |-> 30, confidence |-> 65],
         [score |-> 0 - 30, confidence |-> 55] >>,
      << [score |-> 70, confidence |-> 80], [score |-> 80, confidence |-> 85],
         [score |-> 50, confidence |-> 75] >> }

\* tasks.py:121-136: an analyst's entry with its attack data merged in
WithAttack(entry, attack_data) ==
    IF attack_data.revised_score # << >>
    THEN [ name |-> entry.name, role |-> entry.role, score |-> entry.score,
           confidence |-> entry.confidence, attack |-> attack_data,
           revised_score |-> attack_data.revised_score[1] ]
    ELSE [ name |-> entry.name, role |-> entry.role, score |-> entry.score,
           confidence |-> entry.confidence, attack |-> attack_data ]

\* parse_debate_outputs for the nine-task crew: one entry per analyst, in
\* the order value, momentum, contrarian; any exception replaces the list
\* by the mock entries.  stages holds the outputs of tasks 1..6.
parse_debate_outputs(stages, draws) ==
    LET value == parse_agent_output(stages[1], "Long-Term Value Investor", "value_investor")
        momentum == parse_agent_output(stages[2], "Momentum Swing Trader", "momentum_trader")
        contrarian == parse_agent_output(stages[3], "Contrarian Risk Strategist", "contrarian")
    IN IF value.raised \/ momentum.raised \/ contrarian.raised
       THEN generate_mock_outputs(draws)
       ELSE << WithAttack(value.value, parse_attack_output(stages[4])),
               WithAttack(momentum.value, parse_attack_output(stages[5])),
               WithAttack(contrarian.value, parse_attack_output(stages[6])) >>

\* The log line of tasks.py:58 formats consensus_data.get('consensus_score')
\* with ":.2f".  dict.get yields None for a missing key and
\* format(None, ".2f") raises TypeError.
ConsensusLogRaises(consensus_data) ==
    "consensus_score" \notin DOMAIN consensus_data

\* get_price_data_count
get_price_data_count(timeframe) ==
    CASE timeframe = "1d" -> 1
      [] timeframe = "5d" -> 5
      [] timeframe = "7d" -> 7
      [] timeframe = "30d" -> 30
      [] timeframe = "90d" -> 90
      [] timeframe = "1y" -> 252
      [] timeframe = "2y" -> 504
      [] timeframe = "5y" -> 1260
      [] OTHER -> 30

\* the debate stage's text: a JSON object or not
DebateOutputs ==
    { [json |-> FALSE, obj |-> [raw |-> "not json"]],
      [json |-> TRUE,  obj |-> [agreements |-> "a", major_conflicts |-> "c",
                                debate_intensity_score |-> 50]] }

\* extract_debate_summary: the summary dict (the three members the job
\* reads), or the empty tuple for None
extract_debate_summary(debate) ==
    IF debate.json /\ ~ NonNumeric(debate, "debate_intensity_score")
    THEN << [ agreements |-> get(debate.obj, "agreements", ""),
              major_conflicts |-> get(debate.obj, "major_conflicts", ""),
              debate_intensity_score |-> get(debate.obj, "debate_intensity_score", 0) ] >>
    ELSE << >>

\* tasks.py:61-69: the moderator entry appended when a summary was extracted
AddDebate(agent_outputs, debate_summary) ==
    IF debate_summary # << >>
    THEN Append(agent_outputs,
                [name |-> "Debate Moderator", role |-> "debate",
                 score |-> debate_summary[1].debate_intensity_score,
                 confidence |-> 70])
    ELSE agent_outputs

\* tasks.py:68: the slice [:100] of a major_conflicts that is no text
\* raises TypeError
KeyDataRaises(debate, debate_summary) ==
    debate_summary # << >> /\ Unsliceable(debate, "major_conflicts")

\* tasks.py:53-69: the extraction and assembly of one execution's results;
\* raised tells that the log line or the slice ended it before the list was
\* completed
assemble(stages, draws, chief, debate) ==
    LET agent_outputs == parse_debate_outputs(stages, draws)
        consensus_data == extract_consensus(chief)
        debate_summary == extract_debate_summary(debate)
    IN IF ConsensusLogRaises(consensus_data) \/ KeyDataRaises(debate, debate_summary)
       THEN [ raised |-> TRUE, agent_outputs |-> agent_outputs,
              consensus_data |-> consensus_data ]
       ELSE [ raised |-> FALSE, agent_outputs |-> AddDebate(agent_outputs, debate_summary),
              consensus_data |-> consensus_data ]

\* the analyst and attack outputs the lifecycle's executions are run with
JobStages ==
    { [i \in 1..6 |-> Malformed],
      <<NotText, Malformed, Malformed, Malformed, Malformed, Malformed>> }

\* ----------------------------------------------------------- error texts
CancelledMsg == "Cancelled by user"
DispatchFailedMsg == "Failed to start task: <exception>"

\* f"Failed after {retry_count} retries: {e}"
FailedAfterMsg(retry_count) ==
    CASE retry_count = 0 -> "Failed after 0 retries: <exception>"
      [] retry_count = 1 -> "Failed after 1 retries: <exception>"
      [] retry_count = 2 -> "Failed after 2 retries: <exception>"
      [] retry_count = 3 -> "Failed after 3 retries: <exception>"
      [] OTHER -> "Failed after n retries: <exception>"

\* ---------------------------------------------------------------- state
\* runs      the AgentRun table, in creation order (run id = index)
\* job       per run, the Celery task run_agent_analysis(run_id):
\*           pc "none" (never enqueued), "queued" (a message with eta is in
\*           the queue), "executing" (between mark_as_running and the end of
\*           the pipeline), "done" (returned or raised for good);
\*           agent_run is the worker's in-memory object, retries is Celery's
\*           request.retries, failures counts the executions that ended in
\*           an exception, propagated tells that the last one re-raised it.
\* trig      per HTTP worker, the trigger_analysis request it is handling
\* now       the clock, in seconds
\* input     the function applied and its argument (function checks only)
\* output    what the function returned, NotApplied before
\* history   per client address, the throttle's cached list of the times of
\*           the requests it let through, newest first
\* served    per client address and time, how many trigger requests were
\*           let through to the handler (an observer, the code has none)
\* cache     the data tools' module-level dataset cache of one worker
\*           process: a dict, as the sequence of its items in insertion
\*           order
\* An HTTP response is the value of the handler's operator, not state.
NoRequest == [pc |-> "idle", ticker |-> "", timeframe |-> "", include_social |-> FALSE]
NoObject == AgentRun("", "", FALSE, 0)

NewJob(pc, eta) ==
    [ pc |-> pc, eta |-> eta, start_time |-> Null, retries |-> 0,
      agent_run |-> NoObject, failures |-> 0, propagated |-> FALSE ]

NoInput == [fn |-> "none", arg |-> << >>]
NotApplied == [applied |-> FALSE]

Init ==
    /\ runs = << >>
    /\ job = << >>
    /\ trig = [h \in Handlers |-> NoRequest]
    /\ now = 0
    /\ input = NoInput
    /\ output = NotApplied
    /\ history = [c \in Clients |-> << >>]
    /\ served = [c \in Clients |-> [t \in {} |-> 0]]
    /\ cache = << >>

RunIds == DOMAIN runs
\* ids a client may name: every id that can exist, and one that never does
RequestIds == 1..(MaxRuns + 1)

\* ------------------------------------------------------------- the clock
Tick ==
    /\ now < MaxTicks * TickSeconds
    /\ now' = now + TickSeconds
    /\ UNCHANGED <<runs, job, trig, aux>>

\* ------------------------------------------------------ trigger_analysis
\* variant of the filter that forgets RUNNING in status__in
RecentMatches_PendingOnly(rs, ticker, t) ==
    { r \in DOMAIN rs :
        /\ rs[r].ticker = ticker
        /\ rs[r].status = "PENDING"
        /\ rs[r].created_at >= t - RecentWindowSeconds }

\* views.py:80-85: the runs the anti-duplicate filter matches
RecentMatches(rs, ticker, t) ==
    { r \in DOMAIN rs :
        /\ rs[r].ticker = ticker
        /\ rs[r].status \in {"PENDING", "RUNNING"}
        /\ rs[r].created_at >= t - RecentWindowSeconds }

Max(S) == CHOOSE x \in S : \A y \in S : y <= x

\* .first() under Meta.ordering = ['-created_at']: the match created last
\* (ids are in creation order); 0 when there is none.
recent_run(rs, ticker, t) ==
    IF RecentMatches(rs, ticker, t) = {} THEN 0 ELSE Max(RecentMatches(rs, ticker, t))

\* views.py:87-95: the response that reuses the recent run, when there is one
ExistingResponse(rs, ticker, t) ==
    LET recent == recent_run(rs, ticker, t) IN
    [code |-> HTTP_202_ACCEPTED, run_id |-> recent, status |-> rs[recent].status,
     body |-> "Using existing pending analysis"]

\* handlers that have passed the lookup and not yet created their record
InFlight == {h \in Handlers : trig[h].pc = "checked"}

\* variant of the lookup that also compares timeframe and include_social
TriggerLookup_SameParameters(h, ticker, timeframe, include_social) ==
    /\ trig[h].pc = "idle"
    /\ IF \E r \in RecentMatches(runs, ticker, now) :
            /\ runs[r].timeframe = timeframe
            /\ runs[r].include_social = include_social
       THEN UNCHANGED trig
       ELSE /\ Len(runs) + Cardinality(InFlight) < MaxRuns
            /\ trig' = [trig EXCEPT ![h] =
                          [pc |-> "checked", ticker |-> ticker,
                           timeframe |-> timeframe,
                           include_social |-> include_social]]
    /\ UNCHANGED <<runs, job, now, aux>>

\* views.py:65-95: validation has passed; look for a recent active run and
\* answer with it (ExistingResponse), or go on to create a record.
TriggerLookup(h, ticker, timeframe, include_social) ==
    /\ trig[h].pc = "idle"
    /\ IF recent_run(runs, ticker, now) # 0
       THEN UNCHANGED trig
       ELSE /\ Len(runs) + Cardinality(InFlight) < MaxRuns
            /\ trig' = [trig EXCEPT ![h] =
                          [pc |-> "checked", ticker |-> ticker,
                           timeframe |-> timeframe,
                           include_social |-> include_social]]
    /\ UNCHANGED <<runs, job, now, aux>>

\* variant of the except branch that only logs
DispatchFailed_LogOnly(row, t) == row

\* views.py:111-113: the row after the except branch of the dispatch
DispatchFailed(row, t) ==
    save(row, mark_as_failed(row, DispatchFailedMsg, t), MarkFailedFields)

\* views.py:97-130: the record created for the request, the job message
\* enqueued (delay() returns or raises) and the response.
trigger_create(data, id, delivered, t) ==
    LET row == AgentRun(data.ticker, data.timeframe, data.include_social, t) IN
    IF delivered
    THEN [ row |-> row,
           job |-> NewJob("queued", t),
           response |-> [code |-> HTTP_202_ACCEPTED, run_id |-> id,
                         status |-> "RUNNING", body |-> "accepted"] ]
    ELSE [ row |-> DispatchFailed(row, t),
           job |-> NewJob("none", Null),
           response |-> [code |-> HTTP_500_INTERNAL_SERVER_ERROR, run_id |-> 0,
                         status |-> "", body |-> "Failed to start analysis task"] ]

\* variant of the second step that repeats the lookup and gives up on a match
TriggerCreateWith_Recheck(h, delivered) ==
    /\ trig[h].pc = "checked"
    /\ IF recent_run(runs, trig[h].ticker, now) # 0
       THEN UNCHANGED <<runs, job>>
       ELSE LET out == trigger_create(trig[h], Len(runs) + 1, delivered, now) IN
              /\ runs' = Append(runs, out.row)
              /\ job' = Append(job, out.job)
    /\ trig' = [trig EXCEPT ![h] = NoRequest]
    /\ UNCHANGED <<now, aux>>

TriggerCreateWith(h, delivered) ==
    /\ trig[h].pc = "checked"
    /\ LET out == trigger_create(trig[h], Len(runs) + 1, delivered, now) IN
         /\ runs' = Append(runs, out.row)
         /\ job' = Append(job, out.job)
    /\ trig' = [trig EXCEPT ![h] = NoRequest]
    /\ UNCHANGED <<now, aux>>

TriggerCreate(h) == \E delivered \in BOOLEAN : TriggerCreateWith(h, delivered)

\* ------------------------------------------------------------ cancel_run
\* variant of the guard that rejects completed runs only
CancelRejected_CompletedOnly(status) == status = "COMPLETED"

\* views.py:330
CancelRejected(status) == status \in {"COMPLETED", "FAILED"}

\* variant of cancel_run that deletes the record
cancel_Deletes(rs, run_id, t) ==
    IF run_id \notin DOMAIN rs
    THEN [ runs |-> rs,
           response |-> [code |-> HTTP_404_NOT_FOUND, body |-> "Not found."] ]
    ELSE [ runs |-> SubSeq(rs, 1, run_id - 1) \o SubSeq(rs, run_id + 1, Len(rs)),
           response |-> [code |-> HTTP_200_OK, body |-> "Analysis cancelled"] ]

\* views.py:328-343: the table after the request and the response
\* (get_object_or_404 answers 404 for an unknown id)
cancel(rs, run_id, t) ==
    IF run_id \notin DOMAIN rs
    THEN [ runs |-> rs,
           response |-> [code |-> HTTP_404_NOT_FOUND, body |-> "Not found."] ]
    ELSE IF CancelRejected(rs[run_id].status)
    THEN [ runs |-> rs,
           response |-> [code |-> HTTP_400_BAD_REQUEST, body |-> "Cannot cancel run"] ]
    ELSE [ runs |-> [rs EXCEPT ![run_id] =
                       save(@, mark_as_failed(@, CancelledMsg, t), MarkFailedFields)],
           response |-> [code |-> HTTP_200_OK, body |-> "Analysis cancelled"] ]

cancel_run(run_id) ==
    /\ runs' = cancel(runs, run_id, now).runs
    /\ UNCHANGED <<job, trig, now, aux>>

\* ----------------------------------------------------------- get_results
\* variant of get_results whose second case tests PENDING alone
results_response_PendingOnly(rs, run_id) ==
    IF run_id \notin DOMAIN rs
    THEN [code |-> HTTP_404_NOT_FOUND, shape |-> "not_found"]
    ELSE IF rs[run_id].status = "FAILED"
    THEN [code |-> HTTP_500_INTERNAL_SERVER_ERROR, shape |-> "failed"]
    ELSE IF rs[run_id].status = "PENDING"
    THEN [code |-> HTTP_200_OK, shape |-> "pending"]
    ELSE IF rs[run_id].status = "COMPLETED"
    THEN [code |-> HTTP_200_OK, shape |-> "detail"]
    ELSE [code |-> HTTP_500_INTERNAL_SERVER_ERROR, shape |-> "unknown_status"]

\* views.py:172-238: the response chosen for run_id in table rs
results_response(rs, run_id) ==
    IF run_id \notin DOMAIN rs
    THEN [code |-> HTTP_404_NOT_FOUND, shape |-> "not_found"]
    ELSE IF rs[run_id].status = "FAILED"
    THEN [code |-> HTTP_500_INTERNAL_SERVER_ERROR, shape |-> "failed"]
    ELSE IF rs[run_id].status \in {"PENDING", "RUNNING"}
    THEN [code |-> HTTP_200_OK, shape |-> "pending"]
    ELSE IF rs[run_id].status = "COMPLETED"
    THEN [code |-> HTTP_200_OK, shape |-> "detail"]
    ELSE [code |-> HTTP_500_INTERNAL_SERVER_ERROR, shape |-> "unknown_status"]

\* models.py:127-134: the stored list, [] when the column is NULL
get_agent_outputs(row) ==
    IF row.agent_outputs = << >> THEN << >> ELSE row.agent_outputs[1]

RECURSIVE SumScores(_)
SumScores(agents) ==
    IF agents = << >> THEN 0
    ELSE get(Head(agents), "score", 0) + SumScores(Tail(agents))

Min(S) == CHOOSE x \in S : \A y \in S : x <= y

Confidences(agents) == {get(agents[i], "confidence", 0) : i \in DOMAIN agents}

\* views.py:218-226: the summary member of the detail response (a 1-tuple),
\* or the empty tuple when 'if agents:' fails.  avg_score is the quotient
\* sum / len, kept as its numerator (hundredths) and denominator.
results_summary(row) ==
    LET agents == get_agent_outputs(row) IN
    IF agents # << >>
    THEN << [ total_agents |-> Len(agents),
              avg_score |-> [num |-> SumScores(agents), den |-> Len(agents)],
              max_confidence |-> Max(Confidences(agents)),
              min_confidence |-> Min(Confidences(agents)) ] >>
    ELSE << >>

\* the handler reads the table and writes nothing
get_results(run_id) ==
    /\ results_response(runs, run_id).code \in
         {HTTP_200_OK, HTTP_404_NOT_FOUND, HTTP_500_INTERNAL_SERVER_ERROR}
    /\ UNCHANGED vars

\* ------------------------------------------------------ list_recent_runs
\* the query strings the listing is asked with (None: parameter left out)
ListQueries ==
    { [ticker |-> None, status |-> None, limit |-> 20],
      [ticker |-> "aapl", status |-> None, limit |-> 1],
      [ticker |-> None, status |-> "failed", limit |-> 200] }

\* queryset[:limit] under Meta.ordering = ['-created_at']: the n newest ids
RECURSIVE Newest(_, _)
Newest(S, n) ==
    IF S = {} \/ n = 0 THEN << >>
    ELSE <<Max(S)>> \o Newest(S \ {Max(S)}, n - 1)

\* views.py:284-306: the response for query q on table rs
list_response(rs, q) ==
    LET limit == IF q.limit < 100 THEN q.limit ELSE 100
        queryset == { r \in DOMAIN rs :
                        /\ q.ticker # None => rs[r].ticker = upper(q.ticker)
                        /\ q.status # None => rs[r].status = upper(q.status) }
        results == Newest(queryset, limit)
    IN [code |-> HTTP_200_OK, count |-> Len(results), results |-> results]

\* the handler reads the table and writes nothing
list_recent_runs(q) ==
    /\ list_response(runs, q).code = HTTP_200_OK
    /\ UNCHANGED vars

\* ---------------------------------------------------- run_agent_analysis
\* tasks.py:97: countdown=30 * (2 ** agent_run.retry_count)
retry_countdown(retry_count) == 30 * (2 ^ retry_count)

\* tasks.py:95: whether the except block re-enqueues the task
\* variant of the retry test that allows a retry at max_retries
ShouldRetry_AtMax(retry_count) == retry_count <= max_retries

ShouldRetry(retry_count) == retry_count < max_retries

\* variant of the start that marks every PENDING run RUNNING
JobStart_AllPending(r) ==
    /\ r \in RunIds
    /\ job[r].pc = "queued"
    /\ now >= job[r].eta
    /\ LET obj == mark_as_running(runs[r], now) IN
         /\ runs' = [i \in DOMAIN runs |->
                       IF i = r \/ runs[i].status = "PENDING"
                       THEN save(runs[i], mark_as_running(runs[i], now), MarkRunningFields)
                       ELSE runs[i]]
         /\ job' = [job EXCEPT ![r].pc = "executing",
                               ![r].eta = Null,
                               ![r].start_time = now,
                               ![r].agent_run = obj]
    /\ UNCHANGED <<trig, now, aux>>

\* tasks.py:28-35: a worker takes the message once its eta has come, loads
\* the record and marks it RUNNING.
JobStart(r) ==
    /\ r \in RunIds
    /\ job[r].pc = "queued"
    /\ now >= job[r].eta
    /\ LET obj == mark_as_running(runs[r], now) IN
         /\ runs' = [runs EXCEPT ![r] = save(@, obj, MarkRunningFields)]
         /\ job' = [job EXCEPT ![r].pc = "executing",
                               ![r].eta = Null,
                               ![r].start_time = now,
                               ![r].agent_run = obj]
    /\ UNCHANGED <<trig, now, aux>>

\* tasks.py:71-75: the worker's object and the row after the success path
Completed(row, obj, agent_outputs, consensus_data, execution_time, t) ==
    LET o1 == set_consensus_data(set_agent_outputs(obj, agent_outputs), consensus_data)
        o2 == [o1 EXCEPT !.news_sources_count = 3,
                         !.price_data_points = get_price_data_count(obj.timeframe)]
    IN save(row, mark_as_completed(o2, execution_time, t), MarkCompletedFields)

\* tasks.py:37-100: the pipeline is built and run (either may raise), the
\* results are extracted and logged, and the record is completed; on any
\* exception the except block counts the failure and retries or gives up.
JobFinishWith(r, crew_raised, stages, chief, debate) ==
    /\ r \in RunIds
    /\ job[r].pc = "executing"
    /\   LET obj == job[r].agent_run
             execution_time == now - job[r].start_time
             results == assemble(stages, CHOOSE d \in MockDraws : TRUE, chief, debate)
             raised == crew_raised \/ results.raised
             failed == [obj EXCEPT !.retry_count = @ + 1]
             counted == save(runs[r], failed, {"retry_count"})
             ended == [job[r] EXCEPT !.agent_run = NoObject, !.start_time = Null]
         IN IF raised
            THEN IF ShouldRetry(failed.retry_count)
                 THEN /\ runs' = [runs EXCEPT ![r] = counted]
                      /\ job' = [job EXCEPT ![r] =
                                   [ended EXCEPT !.pc = "queued",
                                                 !.failures = @ + 1,
                                                 !.retries = @ + 1,
                                                 !.eta = now + retry_countdown(failed.retry_count)]]
                 ELSE /\ runs' = [runs EXCEPT ![r] =
                                    save(counted,
                                         mark_as_failed(failed, FailedAfterMsg(failed.retry_count), now),
                                         MarkFailedFields)]
                      /\ job' = [job EXCEPT ![r] =
                                   [ended EXCEPT !.pc = "done",
                                                 !.failures = @ + 1,
                                                 !.propagated = TRUE]]
            ELSE /\ runs' = [runs EXCEPT ![r] =
                               Completed(@, obj, results.agent_outputs,
                                         results.consensus_data, execution_time, now)]
                 /\ job' = [job EXCEPT ![r] = [ended EXCEPT !.pc = "done"]]
    /\ UNCHANGED <<trig, now, aux>>

\* one execution's end: the pipeline raised, or it returned some outputs
JobFinish(r) ==
    \/ \E stages \in JobStages, chief \in ChiefOutputs, debate \in DebateOutputs :
          JobFinishWith(r, FALSE, stages, chief, debate)
    \/ \E stages \in {CHOOSE x \in JobStages : TRUE},
           chief \in {CHOOSE c \in ChiefOutputs : TRUE},
           debate \in {CHOOSE d \in DebateOutputs : TRUE} :
          JobFinishWith(r, TRUE, stages, chief, debate)

\* variant of the except block that finds no record and retries the task
run_without_record_Retries(rs, run_id) ==
    [runs |-> rs, retry_scheduled |-> TRUE, raised |-> "Retry"]

\* tasks.py:33-35, 87-100 for a run_id that has no record: objects.get
\* raises DoesNotExist inside the try; the except block's first statement
\* reads agent_run, which was never bound, so UnboundLocalError leaves the
\* task before the save, the retry and mark_as_failed.
run_without_record(rs, run_id) ==
    LET bound == run_id \in DOMAIN rs IN
    IF ~ bound
    THEN [runs |-> rs, retry_scheduled |-> FALSE, raised |-> "UnboundLocalError"]
    ELSE [runs |-> rs, retry_scheduled |-> FALSE, raised |-> ""]

\* a task message whose run_id matches no record is executed
JobWithoutRecord(run_id) ==
    /\ run_id \notin RunIds
    /\ ~ run_without_record(runs, run_id).retry_scheduled
    /\ runs' = run_without_record(runs, run_id).runs
    /\ UNCHANGED <<job, trig, now, aux>>

\* ------------------------------------------------------------------ next
Next ==
    \/ Tick
    \/ \E h \in Handlers, data \in Requests :
         TriggerLookup(h, data.ticker, data.timeframe, data.include_social)
    \/ \E h \in Handlers : TriggerCreate(h)
    \/ \E run_id \in RequestIds : cancel_run(run_id)
    \/ \E run_id \in RequestIds : get_results(run_id)
    \/ \E q \in ListQueries : list_recent_runs(q)
    \/ \E r \in RunIds : JobStart(r)
    \/ \E r \in RunIds : JobFinish(r)
    \/ \E run_id \in RequestIds : JobWithoutRecord(run_id)

Spec == Init /\ [][Next]_vars

\* ------------------------------------------------------------- progress
\* tasks.py:97: a retry's message stays in the queue for its countdown;
\* time passes until the eta of run r's queued job.
Wait(r) ==
    /\ r \in RunIds
    /\ job[r].pc = "queued"
    /\ now < job[r].eta
    /\ now' = job[r].eta
    /\ UNCHANGED <<runs, job, trig, aux>>

\* the requests that write (the triggers handled by one HTTP worker) and
\* the job; time passes as the queued messages wait for
LiveHandlers == {CHOOSE h \in Handlers : TRUE}

NextLive ==
    \/ \E h \in LiveHandlers, data \in Requests :
         TriggerLookup(h, data.ticker, data.timeframe, data.include_social)
    \/ \E h \in LiveHandlers : TriggerCreate(h)
    \/ \E run_id \in RequestIds : cancel_run(run_id)
    \/ \E r \in RunIds : JobStart(r)
    \/ \E r \in RunIds : JobFinish(r)
    \/ \E r \in RunIds : Wait(r)

\* The queue delivers every message (its eta comes, and a worker then takes
\* it) and every execution of the pipeline ends.
Fairness ==
    \A r \in 1..MaxRuns :
      /\ WF_vars(Wait(r))
      /\ WF_vars(JobStart(r))
      /\ WF_vars(JobFinish(r))

SpecLive == Init /\ [][NextLive]_vars /\ Fairness


\* ================================================= the trigger's throttle
\* views.py:35-37, 133, 265, 309: of the views, trigger_analysis alone is
\* decorated with throttle_classes([AnalysisRateThrottle])
Throttled_None(view) == FALSE

Throttled(view) == view = "trigger_analysis"

\* the throttle's loop over its cached list (newest first): entries that
\* have left the window are popped from the end
RECURSIVE DropExpired(_, _)
DropExpired(h, t) ==
    IF h # << >> /\ h[Len(h)] <= t - throttle_duration
    THEN DropExpired(SubSeq(h, 1, Len(h) - 1), t)
    ELSE h

\* the throttle's decision for a request at time t of a client whose cached
\* list is h: refused when the window is full (the cache is left as it is),
\* else let through with t put in front
allow_request(h, t) ==
    LET kept == DropExpired(h, t) IN
    IF Len(kept) >= throttle_num_requests
    THEN [allowed |-> FALSE, history |-> h]
    ELSE [allowed |-> TRUE, history |-> <<t>> \o kept]

\* the request body the throttle check sends, and the times of its clock
ThrottleRequest == CHOOSE data \in Requests : data.ticker = "AAPL" /\ data.timeframe = "30d"
ThrottleTimes == {k * ThrottleTickSeconds : k \in 0..MaxThrottleTicks}

RECURSIVE SumOver(_, _)
SumOver(f, S) ==
    IF S = {} THEN 0
    ELSE LET x == CHOOSE y \in S : TRUE IN f[x] + SumOver(f, S \ {x})

\* the trigger requests let through so far, over all clients
TotalServed == SumOver([c \in Clients |-> SumOver(served[c], DOMAIN served[c])], Clients)

ThrottleTick ==
    /\ now < MaxThrottleTicks * ThrottleTickSeconds
    /\ now' = now + ThrottleTickSeconds
    /\ UNCHANGED <<runs, job, trig, input, output, history, served, cache>>

\* views.py:35-130 behind the throttle: a request of client c is refused
\* before the view runs, or is let through and handled to its end (the
\* lookup, then the reuse of the recent run or the creation and dispatch).
ThrottledTrigger(c, data) ==
    LET th == allow_request(history[c], now) IN
    /\ IF Throttled("trigger_analysis") /\ ~th.allowed
       THEN UNCHANGED <<runs, job, history, served>>
       ELSE /\ TotalServed < MaxServed
            /\ history' = IF Throttled("trigger_analysis")
                          THEN [history EXCEPT ![c] = th.history]
                          ELSE history
            /\ served' = [served EXCEPT ![c] =
                            [t \in DOMAIN @ \cup {now} |->
                               IF t \in DOMAIN @
                               THEN @[t] + (IF t = now THEN 1 ELSE 0)
                               ELSE 1]]
            /\ IF recent_run(runs, data.ticker, now) # 0
               THEN UNCHANGED <<runs, job>>
               ELSE /\ Len(runs) < MaxRuns
                    /\ LET out == trigger_create(data, Len(runs) + 1, TRUE, now) IN
                         /\ runs' = Append(runs, out.row)
                         /\ job' = Append(job, out.job)
    /\ UNCHANGED <<trig, now, input, output, cache>>

NextThrottle ==
    \/ ThrottleTick
    \/ \E c \in Clients : ThrottledTrigger(c, ThrottleRequest)
    \/ \E run_id \in RequestIds : get_results(run_id)

SpecThrottle == Init /\ [][NextThrottle]_vars


\* ================================================ the request's validators
\* A ticker text is a sequence of characters: a lower-case and an upper-case
\* letter, a digit, a blank, a punctuation mark, and a letter whose upper
\* case is two characters.
Chars == {"a", "A", "1", " ", "-", "ß"}

\* str.isalnum() of one character
IsAlnumChar(c) == c \in {"a", "A", "1", "ß", "S"}

\* str.upper() of one character
upper_char(c) ==
    CASE c = "a" -> <<"A">>
      [] c = "ß" -> <<"S", "S">>
      [] OTHER -> <<c>>

RECURSIVE str_upper(_)
str_upper(s) == IF s = << >> THEN << >> ELSE upper_char(Head(s)) \o str_upper(Tail(s))

RECURSIVE lstrip(_)
lstrip(s) == IF s # << >> /\ Head(s) = " " THEN lstrip(Tail(s)) ELSE s

RECURSIVE rstrip(_)
rstrip(s) ==
    IF s # << >> /\ s[Len(s)] = " " THEN rstrip(SubSeq(s, 1, Len(s) - 1)) ELSE s

\* str.strip()
strip(s) == rstrip(lstrip(s))

\* str.isalnum(): every character is alphanumeric and there is at least one
isalnum(s) == s # << >> /\ \A i \in 1..Len(s) : IsAlnumChar(s[i])

\* variant of validate_ticker that does not strip the value
validate_ticker_NoStrip(value) ==
    LET ticker == str_upper(value) IN
    IF ~ isalnum(ticker)
    THEN [ok |-> FALSE, error |-> "Ticker must contain only letters and numbers"]
    ELSE IF Len(ticker) < 1 \/ Len(ticker) > 10
    THEN [ok |-> FALSE, error |-> "Ticker must be between 1 and 10 characters"]
    ELSE [ok |-> TRUE, value |-> ticker]

\* serializers.py:29-40
validate_ticker(value) ==
    LET ticker == str_upper(strip(value)) IN
    IF ~ isalnum(ticker)
    THEN [ok |-> FALSE, error |-> "Ticker must contain only letters and numbers"]
    ELSE IF Len(ticker) < 1 \/ Len(ticker) > 10
    THEN [ok |-> FALSE, error |-> "Ticker must be between 1 and 10 characters"]
    ELSE [ok |-> TRUE, value |-> ticker]

\* serializers.py:44
valid_timeframes == {"1d", "5d", "7d", "30d", "90d", "1y", "2y", "5y"}

\* variant of validate_timeframe that accepts every text
validate_timeframe_Any(value) == [ok |-> TRUE, value |-> value]

\* serializers.py:42-49
validate_timeframe(value) ==
    IF value \notin valid_timeframes
    THEN [ok |-> FALSE, error |-> "Timeframe must be one of: 1d, 5d, 7d, 30d, 90d, 1y, 2y, 5y"]
    ELSE [ok |-> TRUE, value |-> value]

\* a member the request body does not have
Omitted == "<omitted>"

\* serializers.py:12-49, views.py:65-67: serializer.is_valid() and the
\* validated data; timeframe takes its default '30d' when omitted
is_valid(data) ==
    LET t == validate_ticker(data.ticker)
        f == validate_timeframe(IF data.timeframe = Omitted THEN "30d" ELSE data.timeframe)
    IN IF t.ok /\ f.ok
       THEN [ ok |-> TRUE,
              validated_data |-> [ticker |-> t.value, timeframe |-> f.value,
                                  include_social |-> data.include_social] ]
       ELSE [ ok |-> FALSE,
              errors |-> [ticker |-> IF t.ok THEN "" ELSE t.error,
                          timeframe |-> IF f.ok THEN "" ELSE f.error] ]

\* ---------------------------------------------------- trend classifiers
\* A moving average is the 1-tuple of its value, or the empty tuple for
\* None (fewer closes than its window).
\* variant of the web surfer's classifier without the strong labels
WebSurferTool_determine_trend_NoStrong(price, ma_20, ma_50) ==
    IF ma_20 = << >> THEN "INSUFFICIENT_DATA"
    ELSE IF ma_50 = << >>
    THEN IF price > ma_20[1] THEN "BULLISH" ELSE "BEARISH"
    ELSE IF price > ma_20[1] THEN "UPTREND"
    ELSE "DOWNTREND"

\* core/tools.py: WebSurferTool._determine_trend
WebSurferTool_determine_trend(price, ma_20, ma_50) ==
    IF ma_20 = << >> THEN "INSUFFICIENT_DATA"
    ELSE IF ma_50 = << >>
    THEN IF price > ma_20[1] THEN "BULLISH" ELSE "BEARISH"
    ELSE IF price > ma_20[1] /\ ma_20[1] > ma_50[1] THEN "STRONG_UPTREND"
    ELSE IF price > ma_20[1] THEN "UPTREND"
    ELSE IF price < ma_20[1] /\ ma_20[1] < ma_50[1] THEN "STRONG_DOWNTREND"
    ELSE "DOWNTREND"

\* back/core/tools.py: PriceAnalysisTool._determine_trend
PriceAnalysisTool_determine_trend(current, ma_20, ma_50) ==
    IF ma_20 = << >> THEN "INSUFFICIENT_DATA"
    ELSE IF ma_50 = << >>
    THEN IF current > ma_20[1] THEN "BULLISH" ELSE "BEARISH"
    ELSE IF current > ma_20[1] /\ ma_20[1] > ma_50[1] THEN "STRONG_UPTREND"
    ELSE IF current > ma_20[1] THEN "BULLISH"
    ELSE IF current < ma_20[1] /\ ma_20[1] < ma_50[1] THEN "STRONG_DOWNTREND"
    ELSE "BEARISH"

\* -------------------------------------------------- the pipeline factory
\* create_sentiment_crew: the tasks in the order the crew runs them, each
\* with its agent and its context, the process, and what the web surfer's
\* tool was built with.  A task is told by its variable's name.
create_sentiment_crew(ticker, timeframe, include_social) ==
    LET analysts == <<"value_task", "momentum_task", "contrarian_task">>
        attacks == <<"value_attack_task", "momentum_attack_task",
                     "contrarian_attack_task">>
        tasks_list ==
          << [name |-> "surfer_task", agent |-> "web_surfer", context |-> << >>],
             [name |-> "value_task", agent |-> "value_investor",
              context |-> <<"surfer_task">>],
             [name |-> "momentum_task", agent |-> "momentum_trader",
              context |-> <<"surfer_task">>],
             [name |-> "contrarian_task", agent |-> "contrarian",
              context |-> <<"surfer_task">>],
             [name |-> "value_attack_task", agent |-> "value_investor",
              context |-> analysts],
             [name |-> "momentum_attack_task", agent |-> "momentum_trader",
              context |-> analysts],
             [name |-> "contrarian_attack_task", agent |-> "contrarian",
              context |-> analysts] >>
    IN [ tasks |-> tasks_list \o
                   << [name |-> "debate_task", agent |-> "debate_moderator",
                       context |-> analysts \o attacks],
                      [name |-> "chief_task", agent |-> "chief",
                       context |-> analysts \o attacks \o <<"debate_task">>] >>,
         process |-> "sequential",
         surfer_tool |-> [ticker |-> ticker, timeframe |-> timeframe,
                          include_social |-> include_social] ]

\* ------------------------------------------- the inputs of the functions
\* the texts over Chars of at most n characters
RECURSIVE TextsUpTo(_)
TextsUpTo(n) ==
    IF n = 0 THEN {<< >>}
    ELSE TextsUpTo(n - 1) \cup
         {Append(s, c) : s \in {x \in TextsUpTo(n - 1) : Len(x) = n - 1}, c \in Chars}

Pad(n) == [i \in 1..n |-> "A"]

TickerTexts ==
    {l \o Pad(n) \o r : l \in TextsUpTo(1), n \in 0..MaxPad, r \in TextsUpTo(MaxTail)}

TimeframeTexts ==
    valid_timeframes \cup
    {Omitted, "", "15d", "3y", "30D", "1Y", "1w", "10y", "d30", "30", "1d5d", "max"}

\* request bodies: every ticker text with the timeframe left out, and every
\* timeframe text with one ticker
AnalyzeInputs ==
    {[fn |-> "trigger_analysis",
      arg |-> [ticker |-> t, timeframe |-> Omitted, include_social |-> TRUE]] :
        t \in TickerTexts}
    \cup
    {[fn |-> "trigger_analysis",
      arg |-> [ticker |-> <<"a", "A", "1">>, timeframe |-> f, include_social |-> FALSE]] :
        f \in TimeframeTexts}

PriceInputs ==
    {[fn |-> "get_price_data_count", arg |-> f] : f \in TimeframeTexts}

\* final-stage texts: those the lifecycle runs with, and JSON objects over
\* a grid of actions, confidences and allocations
ChiefTexts ==
    ChiefOutputs \cup
    { [json |-> TRUE, obj |-> [action |-> a, confidence |-> c, allocation |-> l]] :
        a \in {"buy", "SELL", "hold", "strong buy"},
        c \in {0 - 5, 0, 80, 100, 150},
        l \in {0 - 1, 0, 20, 30, 31, 50} }

ConsensusInputs == {[fn |-> "extract_consensus", arg |-> c] : c \in ChiefTexts}

\* debate-stage texts: those the lifecycle runs with, and JSON objects with
\* a major_conflicts that is a number and an intensity that is a word
DebateTexts ==
    DebateOutputs \cup
    { [json |-> TRUE,  obj |-> [agreements |-> "a", major_conflicts |-> "3",
                                debate_intensity_score |-> 50],
       unsliceable |-> {"major_conflicts"}],
      [json |-> TRUE,  obj |-> [agreements |-> "a", major_conflicts |-> "c"],
       nonnum |-> {"debate_intensity_score"}] }

\* the outputs of tasks 1..6: every analyst output with malformed attacks,
\* and every attack output with well-formed analysts
StageInputs ==
    { <<v, m, c, Malformed, Malformed, Malformed>> :
        v \in AnalystOutputs, m \in AnalystOutputs, c \in AnalystOutputs }
    \cup
    { <<a, a, a, x, y, z>> :
        a \in {CHOOSE o \in AnalystOutputs :
                    /\ o.json /\ "initial_score" \in DOMAIN o.obj
                    /\ "nonnum" \notin DOMAIN o},
        x \in AttackOutputs, y \in AttackOutputs, z \in AttackOutputs }

\* one execution's outputs, and the record and the clock it ends with
AssembleInputs ==
    { [fn |-> "run_agent_analysis",
       arg |-> [stages |-> st, draws |-> d, chief |-> c, debate |-> db]] :
        st \in StageInputs, d \in MockDraws, c \in ChiefOutputs, db \in DebateTexts }

\* stored lists: those parse_debate_outputs and AddDebate produce, and the
\* three-entry list with scores 0.5, 0.2, -0.1 and confidences 80, 60, 40
StoredLists ==
    { AddDebate(parse_debate_outputs(st, d), extract_debate_summary(db)) :
        st \in StageInputs, d \in MockDraws, db \in DebateTexts }
    \cup
    { << [name |-> "Long-Term Value Investor", role |-> "value_investor",
          score |-> 50, confidence |-> 80],
         [name |-> "Momentum Swing Trader", role |-> "momentum_trader",
          score |-> 20, confidence |-> 60],
         [name |-> "Contrarian Risk Strategist", role |-> "contrarian",
          score |-> 0 - 10, confidence |-> 40] >> }

\* COMPLETED records to poll: with a stored list, and as the job's
\* completion path writes them
PollInputs ==
    { [fn |-> "get_results",
       arg |-> mark_as_completed(
                 set_agent_outputs(mark_as_running(AgentRun("AAPL", "30d", TRUE, 0), 0), l),
                 5, 0)] : l \in StoredLists }
    \cup
    { [fn |-> "get_results",
       arg |-> Completed(mark_as_running(AgentRun("AAPL", "30d", TRUE, 0), 0),
                         mark_as_running(AgentRun("AAPL", "30d", TRUE, 0), 0),
                         l, extract_consensus(c), 5, 0)] :
        l \in StoredLists, c \in ChiefOutputs }

\* prices and moving averages around the examples 110/105/100 and 95/100/105
TrendValues == {95, 100, 105, 110}
TrendAverages == {<< >>} \cup {<<v>> : v \in TrendValues}

TrendInputs ==
    { [fn |-> "_determine_trend", arg |-> [price |-> p, ma_20 |-> a, ma_50 |-> b]] :
        p \in TrendValues, a \in TrendAverages, b \in TrendAverages }

\* the runs a pipeline is built for
CrewInputs ==
    { [fn |-> "create_sentiment_crew",
       arg |-> [ticker |-> t, timeframe |-> f, include_social |-> s]] :
        t \in Tickers, f \in valid_timeframes, s \in BOOLEAN }

\* one analyst stage's output handed to the extractor
ParseInputs == {[fn |-> "parse_agent_output", arg |-> o] : o \in AnalystOutputs}

FnInputs ==
    AnalyzeInputs \cup PriceInputs \cup ConsensusInputs \cup AssembleInputs \cup PollInputs
    \cup ParseInputs \cup TrendInputs \cup CrewInputs

\* the table is empty, except that a poll finds the record it is about
InitFn ==
    /\ input \in FnInputs
    /\ runs = IF input.fn = "get_results" THEN <<input.arg>> ELSE << >>
    /\ job = IF input.fn = "get_results" THEN <<NewJob("done", Null)>> ELSE << >>
    /\ trig = [h \in Handlers |-> NoRequest]
    /\ now = 0
    /\ output = NotApplied
    /\ history = [c \in Clients |-> << >>]
    /\ served = [c \in Clients |-> [t \in {} |-> 0]]
    /\ cache = << >>

\* views.py:65-130 for one request body handled to its end on an empty
\* table: 400 with the serializer's errors, or the record is created with
\* the validated data and the job is dispatched.
ApplyTrigger ==
    /\ input.fn = "trigger_analysis"
    /\ ~ output.applied
    /\ LET serializer == is_valid(input.arg) IN
         IF ~ serializer.ok
         THEN /\ output' = [applied |-> TRUE, code |-> HTTP_400_BAD_REQUEST,
                            errors |-> serializer.errors]
              /\ UNCHANGED <<runs, job>>
         ELSE LET out == trigger_create(serializer.validated_data, Len(runs) + 1, TRUE, now) IN
              /\ output' = [applied |-> TRUE, code |-> out.response.code]
              /\ runs' = Append(runs, out.row)
              /\ job' = Append(job, out.job)
    /\ UNCHANGED <<trig, now, input, history, served, cache>>

ApplyPriceCount ==
    /\ input.fn = "get_price_data_count"
    /\ ~ output.applied
    /\ output' = [applied |-> TRUE, value |-> get_price_data_count(input.arg)]
    /\ UNCHANGED <<runs, job, trig, now, input, history, served, cache>>

ApplyConsensus ==
    /\ input.fn = "extract_consensus"
    /\ ~ output.applied
    /\ output' = [applied |-> TRUE, value |-> extract_consensus(input.arg)]
    /\ UNCHANGED <<runs, job, trig, now, input, history, served, cache>>

\* tasks.py:53-69 on the outputs of one execution
ApplyAssemble ==
    /\ input.fn = "run_agent_analysis"
    /\ ~ output.applied
    /\ LET res == assemble(input.arg.stages, input.arg.draws, input.arg.chief,
                           input.arg.debate)
       IN output' = [applied |-> TRUE, raised |-> res.raised,
                     agent_outputs |-> res.agent_outputs]
    /\ UNCHANGED <<runs, job, trig, now, input, history, served, cache>>

\* views.py:172-232 for the one record of the table
ApplyPoll ==
    /\ input.fn = "get_results"
    /\ ~ output.applied
    /\ output' = [applied |-> TRUE,
                  code |-> results_response(runs, 1).code,
                  shape |-> results_response(runs, 1).shape,
                  summary |-> results_summary(runs[1])]
    /\ UNCHANGED <<runs, job, trig, now, input, history, served, cache>>

\* tasks.py:124-129: the extractor called for the value analyst
ApplyParse ==
    /\ input.fn = "parse_agent_output"
    /\ ~ output.applied
    /\ output' = [applied |-> TRUE,
                  result |-> parse_agent_output(input.arg, "Long-Term Value Investor",
                                                "value_investor")]
    /\ UNCHANGED <<runs, job, trig, now, input, history, served, cache>>

\* both tools' classifiers on one (price, MA20, MA50)
ApplyTrend ==
    /\ input.fn = "_determine_trend"
    /\ ~ output.applied
    /\ output' = [applied |-> TRUE,
                  price_tool |-> PriceAnalysisTool_determine_trend(
                                   input.arg.price, input.arg.ma_20, input.arg.ma_50),
                  web_surfer |-> WebSurferTool_determine_trend(
                                   input.arg.price, input.arg.ma_20, input.arg.ma_50)]
    /\ UNCHANGED <<runs, job, trig, now, input, history, served, cache>>

\* tasks.py:39-43: the pipeline built for a run
ApplyCrew ==
    /\ input.fn = "create_sentiment_crew"
    /\ ~ output.applied
    /\ output' = [applied |-> TRUE,
                  crew |-> create_sentiment_crew(input.arg.ticker, input.arg.timeframe,
                                                 input.arg.include_social)]
    /\ UNCHANGED <<runs, job, trig, now, input, history, served, cache>>

NextFn ==
    \/ ApplyTrend
    \/ ApplyCrew
    \/ ApplyParse
    \/ ApplyTrigger
    \/ ApplyPriceCount
    \/ ApplyConsensus
    \/ ApplyAssemble
    \/ ApplyPoll

SpecFn == InitFn /\ [][NextFn]_vars

\* =========================================================== data tools
\* core/tools.py: the web surfer collects a dataset and caches it under its
\* ticker; the dataset reader answers from the cache.  A section of a
\* dataset is told by the ticker it is about and the time it was collected.
Queries == {"", "news_data", "PRICE_DATA", "social_data", "news and price"}

\* word in query.lower(), for the queries that occur
Mentions(query, word) ==
    CASE query = "news_data" -> word = "news"
      [] query = "PRICE_DATA" -> word = "price"
      [] query = "social_data" -> word = "social"
      [] query = "news and price" -> word \in {"news", "price"}
      [] OTHER -> FALSE

\* WebSurferTool._run: the dataset collected at time t; social_data is a
\* member only with include_social (the empty tuple when it is none)
Dataset(ticker, include_social, t) ==
    [ ticker |-> ticker,
      timestamp |-> t,
      news_data |-> <<[ticker |-> ticker, timestamp |-> t]>>,
      price_data |-> <<[ticker |-> ticker, timestamp |-> t]>>,
      social_data |-> IF include_social
                      THEN <<[ticker |-> ticker, timestamp |-> t]>>
                      ELSE << >> ]

\* d[key] = value on a dict: a key already present keeps its position
dict_set(d, key, value) ==
    IF \E i \in DOMAIN d : d[i].key = key
    THEN [i \in DOMAIN d |->
            IF d[i].key = key THEN [key |-> key, value |-> value] ELSE d[i]]
    ELSE Append(d, [key |-> key, value |-> value])

\* DatasetReaderTool._run: the error payload on an empty cache, else the
\* section the query names, or the whole dataset, of the cache's first key
DatasetReaderTool_run(c, query) ==
    IF c = << >>
    THEN [error |-> TRUE, key |-> "error", value |-> << >>]
    ELSE LET ticker == c[1].key
             dataset == (CHOOSE i \in DOMAIN c : c[i].key = ticker)
         IN LET ds == c[dataset].value IN
            IF Mentions(query, "news")
            THEN [error |-> FALSE, key |-> "news_data", value |-> ds.news_data]
            ELSE IF Mentions(query, "price")
            THEN [error |-> FALSE, key |-> "price_data", value |-> ds.price_data]
            ELSE IF Mentions(query, "social")
            THEN [error |-> FALSE, key |-> "social_data", value |-> ds.social_data]
            ELSE [error |-> FALSE, key |-> "dataset",
                  value |-> <<[ticker |-> ds.ticker, timestamp |-> ds.timestamp]>>]

\* one run of the web surfer; the collection takes time, so that datasets
\* differ in their timestamps.  input keeps the run, output is reset.
WebSurferRun(ticker, include_social) ==
    /\ now < MaxSurfs
    /\ now' = now + 1
    /\ cache' = dict_set(cache, ticker, Dataset(ticker, include_social, now'))
    /\ input' = [fn |-> "WebSurferTool._run",
                 arg |-> [ticker |-> ticker, include_social |-> include_social,
                          timestamp |-> now']]
    /\ output' = NotApplied
    /\ UNCHANGED <<runs, job, trig, history, served>>

\* one call of the dataset reader by an analyst stage
DatasetReaderRun(query) ==
    /\ output' = [applied |-> TRUE, query |-> query,
                  result |-> DatasetReaderTool_run(cache, query)]
    /\ UNCHANGED <<runs, job, trig, now, input, history, served, cache>>

NextTools ==
    \/ \E ticker \in Tickers, include_social \in BOOLEAN :
          WebSurferRun(ticker, include_social)
    \/ \E query \in Queries : DatasetReaderRun(query)

SpecTools == Init /\ [][NextTools]_vars

\* ================================================================ claims

Terminal == {"COMPLETED", "FAILED"}
Active == {"PENDING", "RUNNING"}

AllowedTransitions ==
    { <<"PENDING", "RUNNING">>, <<"RUNNING", "COMPLETED">>,
      <<"RUNNING", "FAILED">>, <<"PENDING", "FAILED">> }

\* C1: every change of a run's persisted status is one of PENDING->RUNNING,
\* RUNNING->COMPLETED, RUNNING->FAILED, PENDING->FAILED; in particular a
\* COMPLETED or FAILED status never changes.
C1_StatusTransitions ==
    [][ \A r \in RunIds :
          \/ runs'[r].status = runs[r].status
          \/ <<runs[r].status, runs'[r].status>> \in AllowedTransitions ]_vars

\* C2: a job execution whose pipeline was built and run without an exception
\* ends with the record COMPLETED, execution_time the elapsed whole seconds,
\* retry_count as it was and no retry scheduled.
C2_PipelineSuccessCompletes ==
    [][ \A r \in RunIds, stages \in JobStages, chief \in ChiefOutputs,
           debate \in DebateOutputs :
          JobFinishWith(r, FALSE, stages, chief, debate) =>
            /\ runs'[r].status = "COMPLETED"
            /\ runs'[r].execution_time = now - job[r].start_time
            /\ runs'[r].retry_count = runs[r].retry_count
            /\ job'[r].pc = "done" ]_vars

ActiveRecent(ticker) ==
    { r \in RunIds : /\ runs[r].ticker = ticker
                     /\ runs[r].status \in Active
                     /\ now - runs[r].created_at <= 2 * 60 }

C4_ReuseInState ==
    \A data \in Requests :
      ActiveRecent(data.ticker) # {} =>
        /\ recent_run(runs, data.ticker, now) # 0
        /\ ExistingResponse(runs, data.ticker, now).code = 202
        /\ ExistingResponse(runs, data.ticker, now).run_id \in ActiveRecent(data.ticker)

C4_ReuseInStep ==
    /\ \A h \in Handlers, data \in Requests :
         ( /\ ActiveRecent(data.ticker) # {}
           /\ TriggerLookup(h, data.ticker, data.timeframe, data.include_social) )
         => /\ runs' = runs
            /\ job' = job
            /\ trig'[h].pc = "idle"
    /\ \A h \in Handlers :
         TriggerCreateWith(h, TRUE) =>
           /\ trigger_create(trig[h], Len(runs) + 1, TRUE, now).response.run_id = Len(runs')
           /\ ExistingResponse(runs', trig[h].ticker, now').run_id = Len(runs')

\* C4: a trigger for a ticker that has a PENDING or RUNNING run created
\* within the last 2 minutes is answered 202 with the id of such a run,
\* creates no record and enqueues no job; a trigger that is handled right
\* after the one that created a run gets that run's id.
C4_RecentRunReused == [] C4_ReuseInState /\ [][C4_ReuseInStep]_vars

\* the second trigger's case: an active run older than the current instant
\* but inside the window, no other handler at work, room for another record
C4_Witness ==
    \E r \in RunIds :
      /\ InFlight = {}
      /\ Len(runs) < MaxRuns
      /\ runs[r].status = "RUNNING"
      /\ runs[r].created_at < now
      /\ r \in ActiveRecent(runs[r].ticker)

\* C5: cancelling a PENDING or RUNNING run answers 200 and changes exactly
\* three fields of that record: status to FAILED, error_message to
\* "Cancelled by user", completed_at to the current time.
C5_CancelActive ==
    [][ \A id \in RunIds :
          (runs[id].status \in Active /\ cancel_run(id)) =>
            /\ runs' = [runs EXCEPT ![id] =
                          [@ EXCEPT !.status = "FAILED",
                                    !.error_message = "Cancelled by user",
                                    !.completed_at = now]]
            /\ cancel(runs, id, now).response.code = 200 ]_vars

\* a run cancelled this instant, after a failed execution and a clock step
C5_Witness ==
    \E r \in RunIds :
      /\ runs[r].status = "FAILED"
      /\ runs[r].error_message = "Cancelled by user"
      /\ runs[r].completed_at = now
      /\ runs[r].created_at < now
      /\ runs[r].retry_count = 1

\* C6: cancelling a COMPLETED or FAILED run answers 400 and cancelling an
\* unknown id answers 404; either way no record changes.
C6_CancelRejected ==
    \A id \in RequestIds :
      /\ id \notin RunIds =>
           /\ cancel(runs, id, now).runs = runs
           /\ cancel(runs, id, now).response.code = 404
      /\ (id \in RunIds /\ runs[id].status \in Terminal) =>
           /\ cancel(runs, id, now).runs = runs
           /\ cancel(runs, id, now).response.code = 400

\* a run that failed earlier for another reason: an accepted cancel would
\* overwrite its error_message and completed_at
C6_Witness ==
    \E r \in RunIds :
      /\ runs[r].status = "FAILED"
      /\ runs[r].error_message # "Cancelled by user"
      /\ runs[r].completed_at < now

\* C7: a failed job is re-enqueued 30 seconds after the run's first failure
\* and 60 seconds after its second.
C7_RetryDelays ==
    [][ \A r \in RunIds :
          (job[r].pc = "executing" /\ job'[r].pc = "queued") =>
            /\ job'[r].failures = 1 => job'[r].eta = now + 30
            /\ job'[r].failures = 2 => job'[r].eta = now + 60 ]_vars

\* C8: the job marks a run FAILED only at its third failed execution, with a
\* message reporting 2 retries and the exception propagated; the first and
\* the second failure re-enqueue the job.
C8_FailedAfterThreeFailures ==
    [][ \A r \in RunIds :
          job[r].pc = "executing" =>
            /\ (job'[r].pc = "done" /\ runs'[r].status = "FAILED") =>
                 /\ job'[r].failures = 3
                 /\ runs'[r].error_message = "Failed after 2 retries: <exception>"
                 /\ job'[r].propagated
            /\ job'[r].failures \in {1, 2} /\ job'[r].failures # job[r].failures =>
                 job'[r].pc = "queued" ]_vars

\* a run without a job is one whose dispatch raised
C9_DispatchFailureInState ==
    /\ \A r \in RunIds :
         job[r].pc = "none" =>
           /\ runs[r].status = "FAILED"
           /\ runs[r].error_message # None
           /\ runs[r].started_at = Null
           /\ runs[r].retry_count = 0
    /\ \A h \in InFlight :
         LET out == trigger_create(trig[h], Len(runs) + 1, FALSE, now) IN
           /\ out.response.code = 500
           /\ out.job.pc = "none"

C9_DispatchFailureInStep ==
    /\ \A r \in RunIds : job[r].pc = "none" => job'[r].pc = "none"
    /\ \A h \in Handlers :
         TriggerCreateWith(h, FALSE) =>
           /\ job'[Len(runs')].pc = "none"
           /\ runs'[Len(runs')].status = "FAILED"

\* C9: when enqueueing raises, the record just created is persisted FAILED
\* with an error message, the response is 500, and no job ever runs for it:
\* it stays FAILED and is never started.
C9_DispatchFailure == [] C9_DispatchFailureInState /\ [][C9_DispatchFailureInStep]_vars

\* a run whose dispatch failed, later on, while another run's job executes
C9_Witness ==
    \E r, q \in RunIds :
      /\ job[r].pc = "none"
      /\ runs[r].created_at < now
      /\ job[q].pc = "executing"

\* the response the poll is to give for each status
PollTable(status) ==
    CASE status = "FAILED" -> [code |-> 500, shape |-> "failed"]
      [] status = "PENDING" -> [code |-> 200, shape |-> "pending"]
      [] status = "RUNNING" -> [code |-> 200, shape |-> "pending"]
      [] status = "COMPLETED" -> [code |-> 200, shape |-> "detail"]

\* C10: the poll answers by the persisted status alone - 404 for an unknown
\* id, 500/failed for FAILED, 200/pending for PENDING and RUNNING,
\* 200/detail for COMPLETED - and never with the "Unknown status" fallback.
C10_PollByStatus ==
    /\ \A id \in RequestIds :
         /\ id \notin RunIds =>
              results_response(runs, id) = [code |-> 404, shape |-> "not_found"]
         /\ id \in RunIds =>
              /\ runs[id].status \in STATUS_CHOICES
              /\ results_response(runs, id) = PollTable(runs[id].status)
         /\ results_response(runs, id).shape # "unknown_status"
    /\ \A st \in STATUS_CHOICES :
         results_response(<<[NoObject EXCEPT !.status = st]>>, 1) = PollTable(st)

\* polls of an unknown id, of a RUNNING run and of a FAILED run are all
\* possible in one state
C10_Witness ==
    /\ Len(runs) = 2
    /\ runs[1].status = "FAILED"
    /\ runs[2].status = "RUNNING"

\* the trigger requests of client c let through in the minute that ends at t
ServedInWindow(c, t) ==
    SumOver(served[c], {u \in DOMAIN served[c] : u > t - 60 /\ u <= t})

C11_InState ==
    \A c \in Clients :
      /\ \A t \in ThrottleTimes : ServedInWindow(c, t) <= 10
      /\ allow_request(history[c], now).allowed <=> ServedInWindow(c, now) < 10
      /\ ServedInWindow(c, now) >= 10 =>
           \A run_id \in RequestIds :
             /\ results_response(runs, run_id).code \in {200, 404, 500}
             /\ cancel(runs, run_id, now).response.code \in {200, 400, 404}

C11_InStep ==
    /\ \A c \in Clients :
         ThrottledTrigger(c, ThrottleRequest) =>
           /\ ServedInWindow(c, now) >= 10 =>
                runs' = runs /\ job' = job /\ served' = served
           /\ \A d \in Clients \ {c} :
                history'[d] = history[d] /\ served'[d] = served[d]
    /\ \A run_id \in RequestIds :
         get_results(run_id) => history' = history /\ served' = served

\* C11: per client address at most 10 trigger requests are let through in
\* any one-minute window; a further request of that address inside the
\* window is refused and leaves the run table and the job queue as they
\* were, while the other addresses' requests and the other endpoints are
\* not affected.
C11_TriggerThrottle == [] C11_InState /\ [][C11_InStep]_vars

C11_Witness ==
    \E c \in Clients, d \in Clients :
      /\ c # d
      /\ ServedInWindow(c, now) = 10
      /\ ~ allow_request(history[c], now).allowed
      /\ ServedInWindow(d, now) >= 1
      /\ allow_request(history[d], now).allowed
      /\ Len(runs) >= 1

\* the text between the first and the last character of s that is no blank
C12_Trimmed(s) ==
    LET idx == {i \in 1..Len(s) : s[i] # " "} IN
    IF idx = {} THEN << >>
    ELSE SubSeq(s, CHOOSE i \in idx : \A j \in idx : i <= j, Max(idx))

\* C12: a request's ticker text is accepted exactly when, trimmed of the
\* surrounding whitespace and upper-cased, it is 1 to 10 alphanumeric
\* characters, and then the run is stored with that normalized text; every
\* other text is rejected with 400 and neither a run nor a job is created.
C12_TickerValidator ==
    (input.fn = "trigger_analysis" /\ input.arg.timeframe = Omitted /\ output.applied) =>
      LET norm == str_upper(C12_Trimmed(input.arg.ticker)) IN
      IF /\ Len(norm) >= 1
         /\ Len(norm) <= 10
         /\ \A i \in 1..Len(norm) : norm[i] \in {"A", "1", "S"}
      THEN /\ output.code = 202
           /\ Len(runs) = 1
           /\ runs[1].ticker = norm
           /\ Len(job) = 1 /\ job[1].pc = "queued"
      ELSE /\ output.code = 400
           /\ runs = << >>
           /\ job = << >>

C12_Witness ==
    /\ input.fn = "trigger_analysis"
    /\ output.applied
    /\ output.code = 202
    /\ Len(input.arg.ticker) > 10
    /\ runs[1].ticker # input.arg.ticker

\* C13: a request's timeframe is accepted exactly when it is one of the
\* eight codes or is left out (then it is 30d); the stored timeframe is one
\* of the eight codes, and get_price_data_count has an entry for each of
\* them and answers 30 for any other text.
C13_TimeframeValidator ==
    /\ (input.fn = "trigger_analysis" /\ input.arg.timeframe # Omitted /\ output.applied) =>
         IF input.arg.timeframe \in {"1d", "5d", "7d", "30d", "90d", "1y", "2y", "5y"}
         THEN output.code = 202 /\ Len(runs) = 1 /\ runs[1].timeframe = input.arg.timeframe
         ELSE output.code = 400 /\ runs = << >>
    /\ (input.fn = "trigger_analysis" /\ input.arg.timeframe = Omitted /\ output.applied
          /\ output.code = 202) =>
         runs[1].timeframe = "30d"
    /\ \A r \in DOMAIN runs :
         runs[r].timeframe \in {"1d", "5d", "7d", "30d", "90d", "1y", "2y", "5y"}
    /\ (input.fn = "get_price_data_count" /\ output.applied) =>
         output.value =
           CASE input.arg = "1d" -> 1
             [] input.arg = "5d" -> 5
             [] input.arg = "7d" -> 7
             [] input.arg = "30d" -> 30
             [] input.arg = "90d" -> 90
             [] input.arg = "1y" -> 252
             [] input.arg = "2y" -> 504
             [] input.arg = "5y" -> 1260
             [] OTHER -> 30

C13_Witness ==
    /\ input.fn = "trigger_analysis"
    /\ output.applied
    /\ input.arg.timeframe = "5y"
    /\ Len(runs) = 1
    /\ runs[1].timeframe = "5y"
    /\ get_price_data_count(runs[1].timeframe) = 1260

\* C14: whatever text the final stage emits, the consensus record extracted
\* from it has action BUY, SELL or HOLD, confidence in 0..100 and allocation
\* in 0..30.
C14_ConsensusRanges ==
    (input.fn = "extract_consensus" /\ output.applied) =>
      /\ output.value.action \in {"BUY", "SELL", "HOLD"}
      /\ output.value.confidence \in 0..100
      /\ output.value.allocation \in 0..30

\* C15: the list one execution builds from the stage outputs is the three
\* analyst entries value_investor, momentum_trader, contrarian in that
\* order, followed by the Debate Moderator entry with confidence 70 exactly
\* when the debate summary was extracted.
C15_AgentOutputList ==
    (input.fn = "run_agent_analysis" /\ output.applied) =>
      LET list == output.agent_outputs
          extracted == /\ input.arg.debate.json
                       /\ "nonnum" \notin DOMAIN input.arg.debate
      IN /\ Len(list) >= 3
         /\ list[1].role = "value_investor"
         /\ list[2].role = "momentum_trader"
         /\ list[3].role = "contrarian"
         /\ Len(list) = IF extracted THEN 4 ELSE 3
         /\ extracted => list[4].name = "Debate Moderator" /\ list[4].confidence = 70

C17_InState ==
    \A run_id \in RequestIds :
      LET after == cancel(runs, run_id, now).runs IN
      /\ DOMAIN after = DOMAIN runs
      /\ \A r \in RunIds : r # run_id => after[r] = runs[r]

C17_InStep ==
    /\ Len(runs') >= Len(runs)
    /\ \A r \in RunIds :
         /\ runs'[r].ticker = runs[r].ticker
         /\ runs'[r].created_at = runs[r].created_at
    /\ (\E run_id \in RequestIds : get_results(run_id)) => runs' = runs
    /\ (\E q \in ListQueries : list_recent_runs(q)) => runs' = runs

\* C17: no step removes a run record (a cancel keeps the record and the
\* table only grows), and a step of the polling or the listing endpoint
\* leaves every record as it was.
C17_NoRunRemoved == [] C17_InState /\ [][C17_InStep]_vars

C17_Witness ==
    /\ Len(runs) = 2
    /\ runs[1].status = "FAILED"
    /\ runs[1].error_message = "Cancelled by user"
    /\ list_response(runs, [ticker |-> None, status |-> None, limit |-> 20]).results = <<2, 1>>
    /\ results_response(runs, 1).shape = "failed"

\* C18: the second step of a trigger does not look again: a handler that has
\* done its lookup creates its PENDING record and enqueues its job whatever
\* has been created since, so two requests for one ticker that both looked
\* before either created leave two active runs inside the window.
C18_NonAtomicCheck ==
    [][ \A h \in Handlers :
          (trig[h].pc = "checked" /\ TriggerCreateWith(h, TRUE)) =>
            /\ Len(runs') = Len(runs) + 1
            /\ runs'[Len(runs')].ticker = trig[h].ticker
            /\ runs'[Len(runs')].status = "PENDING"
            /\ Len(job') = Len(runs')
            /\ job'[Len(job')].pc = "queued" ]_vars

C18_Witness ==
    /\ Len(runs) = 2
    /\ runs[1].ticker = runs[2].ticker
    /\ runs[1].status = "PENDING" /\ runs[2].status = "PENDING"
    /\ job[1].pc = "queued" /\ job[2].pc = "queued"
    /\ now - runs[1].created_at <= 2 * 60
    /\ now - runs[2].created_at <= 2 * 60
    /\ \A h \in Handlers : trig[h].pc = "idle"

\* C19: when the job of a run that was cancelled during the execution ends
\* an execution whose pipeline raised nothing, the record, FAILED with
\* "Cancelled by user", becomes COMPLETED.
C19_CancelledThenCompleted ==
    [][ \A r \in RunIds, stages \in JobStages, chief \in ChiefOutputs,
           debate \in DebateOutputs :
          ( /\ runs[r].status = "FAILED"
            /\ runs[r].error_message = "Cancelled by user"
            /\ JobFinishWith(r, FALSE, stages, chief, debate) ) =>
            runs'[r].status = "COMPLETED" ]_vars

\* C20: a job executed for an id that has no record raises, schedules no
\* retry and leaves the table as it was.
C20_UnknownRunId ==
    \A run_id \in RequestIds \ RunIds :
      LET out == run_without_record(runs, run_id) IN
      /\ out.raised # ""
      /\ out.retry_scheduled = FALSE
      /\ out.runs = runs
      /\ Len(job) = Len(runs)

C20_Witness ==
    /\ Len(runs) = 1
    /\ job[1].pc = "queued"
    /\ run_without_record(runs, 2).raised = "UnboundLocalError"
    /\ ENABLED JobWithoutRecord(2)

\* C21: whatever texts the stages emit (malformed, not an object, members
\* missing or of the wrong type), the extraction of the results and the
\* assembly of the agent list raise nothing.
C21_StageContentNeverFails ==
    (input.fn = "run_agent_analysis" /\ output.applied) => ~ output.raised

\* C22: for every stage output the analyst-output extractor returns an
\* entry with the given name and role and raises nothing; when the output
\* is not a JSON object with numeric score and confidence the entry has
\* score 0.0 and confidence 50.
C22_ExtractorNeverRaises ==
    (input.fn = "parse_agent_output" /\ output.applied) =>
      LET o == input.arg
          structured == /\ o.text /\ o.json /\ "nonnum" \notin DOMAIN o
      IN /\ ~ output.result.raised
         /\ output.result.value.name = "Long-Term Value Investor"
         /\ output.result.value.role = "value_investor"
         /\ ~ structured => /\ output.result.value.score = 0
                            /\ output.result.value.confidence = 50

\* the part of C22 that holds: every output whose raw is a text
C22_TextOutputs ==
    (input.fn = "parse_agent_output" /\ output.applied /\ input.arg.text) =>
      LET o == input.arg
          structured == o.json /\ "nonnum" \notin DOMAIN o
      IN /\ ~ output.result.raised
         /\ output.result.value.name = "Long-Term Value Investor"
         /\ output.result.value.role = "value_investor"
         /\ ~ structured => /\ output.result.value.score = 0
                            /\ output.result.value.confidence = 50

\* what an analyst stage's output gives as the initial score
C23_InitialScore(o) ==
    IF o.text /\ o.json /\ "nonnum" \notin DOMAIN o
    THEN get(o.obj, "initial_score", get(o.obj, "score", 0))
    ELSE 0

C23_AttackParsed(a) == a.text /\ a.json /\ "nonnum" \notin DOMAIN a

\* C23: in the merged list an analyst whose attack stage parsed shows the
\* revised score (0.0 when the stage omitted it) as its score; an analyst
\* whose attack stage failed to parse keeps its initial score and has no
\* revised_score member.
C23_RevisedScoreShown ==
    ( /\ input.fn = "run_agent_analysis" /\ output.applied
      /\ \A i \in 1..3 : input.arg.stages[i].text ) =>
      \A i \in 1..3 :
        LET attack == input.arg.stages[i + 3]
            entry == output.agent_outputs[i]
        IN IF C23_AttackParsed(attack)
           THEN entry.score = get(attack.obj, "revised_score", 0)
           ELSE /\ entry.score = C23_InitialScore(input.arg.stages[i])
                /\ "revised_score" \notin DOMAIN entry

\* the part of C23 that holds: the revised score is a member of its own,
\* present exactly when the attack stage parsed, and the score stays the
\* initial one
C23_RevisedScoreBeside ==
    ( /\ input.fn = "run_agent_analysis" /\ output.applied
      /\ \A i \in 1..3 : input.arg.stages[i].text ) =>
      \A i \in 1..3 :
        LET attack == input.arg.stages[i + 3]
            entry == output.agent_outputs[i]
        IN /\ entry.score = C23_InitialScore(input.arg.stages[i])
           /\ IF C23_AttackParsed(attack)
              THEN /\ "revised_score" \in DOMAIN entry
                   /\ entry.revised_score = get(attack.obj, "revised_score", 0)
              ELSE "revised_score" \notin DOMAIN entry

\* C24: a dataset-reader call returns the error payload when no web
\* surfer has run in the process, and otherwise only data of the dataset
\* the most recent web-surfer run collected.
C24_ReaderReadsLatest ==
    output.applied =>
      IF input.fn = "none"
      THEN output.result.error
      ELSE /\ ~ output.result.error
           /\ \A i \in DOMAIN output.result.value :
                /\ output.result.value[i].ticker = input.arg.ticker
                /\ output.result.value[i].timestamp = input.arg.timestamp

\* the part of C24 that holds: while all the runs were for one ticker
C24_OneTicker ==
    (output.applied /\ Len(cache) <= 1) =>
      IF input.fn = "none"
      THEN output.result.error
      ELSE /\ ~ output.result.error
           /\ \A i \in DOMAIN output.result.value :
                /\ output.result.value[i].ticker = input.arg.ticker
                /\ output.result.value[i].timestamp = input.arg.timestamp

\* the label the precedence gives, with the given non-strong labels
C25_Label(price, ma_20, ma_50, bullish, bearish) ==
    CASE ma_20 = << >> -> "INSUFFICIENT_DATA"
      [] ma_20 # << >> /\ ma_50 = << >> ->
           IF price > ma_20[1] THEN "BULLISH" ELSE "BEARISH"
      [] ma_20 # << >> /\ ma_50 # << >> ->
           CASE price > ma_20[1] /\ ma_20[1] > ma_50[1] -> "STRONG_UPTREND"
             [] price > ma_20[1] /\ ~ (ma_20[1] > ma_50[1]) -> bullish
             [] price < ma_20[1] /\ ma_20[1] < ma_50[1] -> "STRONG_DOWNTREND"
             [] OTHER -> bearish

C25_Rename(label) ==
    CASE label = "UPTREND" -> "BULLISH"
      [] label = "DOWNTREND" -> "BEARISH"
      [] OTHER -> label

\* C25: both trend classifiers give INSUFFICIENT_DATA without MA20, BULLISH
\* or BEARISH by price > MA20 without MA50, and otherwise STRONG_UPTREND
\* for price > MA20 > MA50, else the bullish label for price > MA20, else
\* STRONG_DOWNTREND for price < MA20 < MA50, else the bearish label; the
\* price tool's labels are BULLISH/BEARISH, the web surfer's
\* UPTREND/DOWNTREND, and they agree up to that renaming.
C25_TrendPrecedence ==
    (input.fn = "_determine_trend" /\ output.applied) =>
      LET a == input.arg IN
      /\ output.price_tool = C25_Label(a.price, a.ma_20, a.ma_50, "BULLISH", "BEARISH")
      /\ output.web_surfer = C25_Label(a.price, a.ma_20, a.ma_50, "UPTREND", "DOWNTREND")
      /\ output.price_tool = C25_Rename(output.web_surfer)

\* price 110 over MA20 105 over MA50 100 is a strong uptrend for both
C25_Witness ==
    /\ input.fn = "_determine_trend" /\ output.applied
    /\ input.arg = [price |-> 110, ma_20 |-> <<105>>, ma_50 |-> <<100>>]
    /\ output.price_tool = "STRONG_UPTREND"
    /\ output.web_surfer = "STRONG_UPTREND"

C26_Order ==
    << "surfer_task", "value_task", "momentum_task", "contrarian_task",
       "value_attack_task", "momentum_attack_task", "contrarian_attack_task",
       "debate_task", "chief_task" >>

C26_Range(s) == {s[i] : i \in DOMAIN s}

\* C26: the crew has exactly the nine tasks surfer, value, momentum,
\* contrarian, value-attack, momentum-attack, contrarian-attack, debate,
\* chief in that order, run sequentially; each task's context holds only
\* earlier tasks, the debate task's the six analyst and attack tasks, the
\* chief task's all eight earlier tasks.
C26_NineTasksInOrder ==
    (input.fn = "create_sentiment_crew" /\ output.applied) =>
      LET tasks == output.crew.tasks IN
      /\ [i \in DOMAIN tasks |-> tasks[i].name] = C26_Order
      /\ output.crew.process = "sequential"
      /\ \A i \in DOMAIN tasks :
           C26_Range(tasks[i].context) \subseteq {C26_Order[j] : j \in 1..(i - 1)}
      /\ C26_Range(tasks[8].context) = {C26_Order[j] : j \in 2..7}
      /\ C26_Range(tasks[9].context) = {C26_Order[j] : j \in 1..8}

\* the part of C26 that holds: the chief's context is the seven tasks after
\* the surfer's
C26_ChiefWithoutSurfer ==
    (input.fn = "create_sentiment_crew" /\ output.applied) =>
      LET tasks == output.crew.tasks IN
      /\ [i \in DOMAIN tasks |-> tasks[i].name] = C26_Order
      /\ output.crew.process = "sequential"
      /\ \A i \in DOMAIN tasks :
           C26_Range(tasks[i].context) \subseteq {C26_Order[j] : j \in 1..(i - 1)}
      /\ C26_Range(tasks[8].context) = {C26_Order[j] : j \in 2..7}
      /\ C26_Range(tasks[9].context) = {C26_Order[j] : j \in 2..8}

\* the run was marked FAILED by its job (not by a cancellation)
C27_FailedByJob(r) ==
    /\ runs[r].status = "FAILED"
    /\ runs[r].error_message \in {"Failed after 1 retries: <exception>",
                                   "Failed after 2 retries: <exception>",
                                   "Failed after 3 retries: <exception>"}

C27_InState ==
    \A r \in RunIds :
      /\ runs[r].retry_count \in 0..2
      /\ runs[r].retry_count = job[r].failures
      /\ job[r].retries <= 1
      /\ C27_FailedByJob(r) => job[r].pc = "done"

C27_InStep ==
    \A r \in RunIds :
      /\ (job[r].pc = "executing" /\ job'[r].pc = "queued") =>
           /\ runs'[r].retry_count = runs[r].retry_count + 1
           /\ runs'[r].retry_count < 2
      /\ (job[r].pc = "executing" /\ job'[r].pc = "done"
            /\ job'[r].failures # job[r].failures) =>
           /\ runs'[r].retry_count = runs[r].retry_count + 1
           /\ runs'[r].retry_count = 2
      /\ C27_FailedByJob(r) => job'[r].pc = "done"

C28_Enqueued(r) == r \in RunIds /\ job[r].pc # "none"

C28_Settled(r) ==
    /\ r \in RunIds
    /\ runs[r].status \in {"COMPLETED", "FAILED"}
    /\ job[r].pc = "done"

C28_Active(r) == r \in RunIds /\ runs[r].status \in {"PENDING", "RUNNING"}

\* C28: when the queue delivers every message and every execution ends, a
\* run whose job was enqueued eventually is COMPLETED or FAILED with no
\* execution of its job pending, and stays so; no run stays PENDING or
\* RUNNING forever.
C28_RunsSettle ==
    \A r \in 1..MaxRuns :
      /\ C28_Enqueued(r) ~> [] C28_Settled(r)
      /\ C28_Active(r) ~> ~ C28_Active(r)

\* a run settled through a retry that waited for its countdown
C28_Witness ==
    \E r \in RunIds :
      /\ C28_Settled(r)
      /\ job[r].retries = 1
      /\ runs[r].completed_at = 60

\* the active runs of the ticker, at most 2 minutes old, that were asked
\* for with another timeframe or include_social than the request
C29_OtherParameters(data) ==
    { r \in RunIds : /\ runs[r].ticker = data.ticker
                     /\ runs[r].status \in {"PENDING", "RUNNING"}
                     /\ now - runs[r].created_at <= 120
                     /\ \/ runs[r].timeframe # data.timeframe
                        \/ runs[r].include_social # data.include_social }

\* C29: a trigger for a ticker that has an active run at most 2 minutes
\* old with another timeframe or include_social is answered with an
\* existing run of that ticker; every record keeps its timeframe and
\* include_social, and no record is created for the request.
C29_TickerAloneMatches ==
    [][ \A h \in Handlers, data \in Requests :
          ( /\ C29_OtherParameters(data) # {}
            /\ TriggerLookup(h, data.ticker, data.timeframe, data.include_social) )
          => /\ ExistingResponse(runs, data.ticker, now).code = 202
             /\ ExistingResponse(runs, data.ticker, now).run_id \in RunIds
             /\ runs[ExistingResponse(runs, data.ticker, now).run_id].ticker = data.ticker
             /\ runs' = runs
             /\ job' = job
             /\ trig'[h].pc = "idle" ]_vars

\* an active AAPL run asked for with 30d and social data, and a handler
\* free to take a trigger for AAPL with 1y and without, with room for a
\* record
C29_Witness ==
    /\ \E r \in C29_OtherParameters([ticker |-> "AAPL", timeframe |-> "1y",
                                      include_social |-> FALSE]) :
         runs[r].timeframe = "30d" /\ runs[r].include_social
    /\ Len(runs) + Cardinality(InFlight) < MaxRuns
    /\ ENABLED TriggerLookup("h1", "AAPL", "1y", FALSE)

\* C30: a step of the job of run A (a step that changes the state of A's
\* job) leaves every field of every other run's record as it was, and no
\* step of any operation changes the place (id), ticker, timeframe or
\* include_social of an existing record.
C30_JobWritesOwnRun ==
    [][ /\ \A a \in RunIds :
             job'[a] # job[a] =>
               /\ Len(runs') = Len(runs)
               /\ \A b \in RunIds \ {a} : runs'[b] = runs[b]
        /\ \A r \in RunIds :
             /\ r \in DOMAIN runs'
             /\ runs'[r].ticker = runs[r].ticker
             /\ runs'[r].timeframe = runs[r].timeframe
             /\ runs'[r].include_social = runs[r].include_social ]_vars

\* run 1's job is executing (it has marked run 1 RUNNING) while run 2,
\* asked for with other parameters, is still PENDING with its job queued
C30_Witness ==
    /\ Len(runs) = 2
    /\ job[1].pc = "executing" /\ runs[1].status = "RUNNING"
    /\ job[2].pc = "queued" /\ runs[2].status = "PENDING"
    /\ runs[1].ticker # runs[2].ticker

====
